---- MODULE Spec2Model ----
(***************************************************************************)
(* Online Course Registration System (OCRS).                               *)
(*                                                                         *)
(* Two layers of the repository carry enrollment state:                    *)
(*   - the MySQL schema (tables section, enrollment, waitlist, audit_log   *)
(*     and their four triggers), driven by SQL statements;                 *)
(*   - the React client App, whose handlers keep an in-memory db.          *)
(* Spec is the database layer, SpecApp the client layer.                   *)
(***************************************************************************)
EXTENDS Integers, Sequences, FiniteSets, TLC

(***************************************************************************)
(* Bounds of the model.                                                    *)
(***************************************************************************)
NumStudents == 3
NumSections == 2
MaxCapacity == 2
MaxEnrollmentRows == 2
MaxWaitlistRows == 2
MaxAudit == 3

Students == 1..NumStudents
Sections == 1..NumSections

(***************************************************************************)
(* Schema: the ENUM columns and the seed data's student -> user mapping.   *)
(***************************************************************************)
SectionStatus == {"Scheduled", "Cancelled", "Completed"}
EnrollmentStatus == {"Enrolled", "Dropped", "Completed", "Withdrawn"}

\* student_profile rows of the seed data: student_id n has user_id n + 8
UserIdOffset == 8
UserIdOf(student_id) == student_id + UserIdOffset

VARIABLES
    section,             \* section_id -> [capacity, status]
    enrollment,          \* set of enrollment rows
    next_enrollment_id,  \* AUTO_INCREMENT counter of enrollment
    waitlist,            \* set of waitlist rows
    next_waitlist_id,    \* AUTO_INCREMENT counter of waitlist
    audit_log,           \* the committed audit_log rows, in audit_id order
    next_audit_id,       \* AUTO_INCREMENT counter of audit_log
    session              \* student -> the statement the connection is executing
                         \* (a statement is its own transaction: autocommit)
                         \* and the rows it has written and not yet committed

\* enrollment, waitlist and audit_log hold the committed rows, which are what
\* the consistent reads of the other connections see.
dbVars == <<section, enrollment, next_enrollment_id, waitlist, next_waitlist_id,
            audit_log, next_audit_id, session>>

VARIABLES
    db,            \* useState(initializeDatabase()): users, courses, enrollments, failedLogins
    snapshot,      \* the db captured by the handlers of the current render
    currentUser,   \* the logged-in user record, or NoUser for null
    view,          \* 'login', 'dashboard' or 'admin'
    notification,  \* [message, type], or NoNotification for null
    timers         \* number of pending setTimeout callbacks of showNotification

appVars == <<db, snapshot, currentUser, view, notification, timers>>

VARIABLES
    messages,      \* useState of Chatbot: the conversation, oldest first
    input,         \* useState of Chatbot: the text in the input box
    isSending,     \* useState of Chatbot: a send is under way
    chatClosure,   \* the input and isSending captured by the rendered handleSend
    requests       \* the fetches of handleSend that have not settled, oldest first

chatVars == <<messages, input, isSending, chatClosure, requests>>

VARIABLES
    call           \* student -> progress of the student's one enrollment request,
                   \* for the runs that launch the requests side by side

ReadyCall == [pc |-> "ready", section_id |-> 0, outcome |-> "none"]

IdleSession == [stmt |-> "none", section_id |-> 0, section_capacity |-> 0,
                current_enrollment |-> 0, next_position |-> 0, enrollment_id |-> 0,
                waitlist_id |-> 0, audit_id |-> 0, new_status |-> ""]

(***************************************************************************)
(* Queries used by the triggers.                                           *)
(***************************************************************************)
RECURSIVE SetMax(_)
SetMax(S) == IF S = {} THEN 0
             ELSE LET x == CHOOSE v \in S : TRUE
                      m == SetMax(S \ {x})
                  IN IF x > m THEN x ELSE m

\* SELECT COUNT(*) FROM enrollment WHERE section_id = x AND enrollment_status = 'Enrolled'
CountEnrolled(rows, x) ==
    Cardinality({e \in rows : e.section_id = x /\ e.enrollment_status = "Enrolled"})

\* SELECT COALESCE(MAX(position), 0) + 1 FROM waitlist WHERE section_id = x
NextPosition(rows, x) ==
    SetMax({w.position : w \in {v \in rows : v.section_id = x}}) + 1

\* UNIQUE KEY unique_enrollment (student_id, section_id)
EnrollmentRowsOf(s, x) == {e \in enrollment : e.student_id = s /\ e.section_id = x}

\* UNIQUE KEY unique_waitlist (section_id, student_id)
WaitlistRowsOf(s, x) == {w \in waitlist : w.student_id = s /\ w.section_id = x}

\* Statements at one point of their execution
InFlight(kind) == Cardinality({s \in Students : session[s].stmt = kind})

\* INSERTs INTO enrollment whose after_enrollment_insert has not run yet
PendingAudits == InFlight("insert_enrollment") + InFlight("after_enrollment_insert")

\* audit_log with one more committed row, in audit_id order
InsertAudit(log, row) ==
    LET k == Cardinality({i \in 1..Len(log) : log[i].audit_id < row.audit_id})
    IN SubSeq(log, 1, k) \o <<row>> \o SubSeq(log, k + 1, Len(log))

\* section.capacity of the seeded sections: CHECK (capacity > 0), here 1, 2, 1, 2, ...
SeedCapacity(x) == ((x - 1) % MaxCapacity) + 1

(***************************************************************************)
(* Initial state: the schema freshly created, sections seeded; the         *)
(* sections share one status drawn from the ENUM.                          *)
(***************************************************************************)
InitDb ==
    /\ \E st \in SectionStatus :
          section = [x \in Sections |-> [capacity |-> SeedCapacity(x), status |-> st]]
    /\ enrollment = {}
    /\ next_enrollment_id = 1
    /\ waitlist = {}
    /\ next_waitlist_id = 1
    /\ audit_log = <<>>
    /\ next_audit_id = 1
    /\ session = [s \in Students |-> IdleSession]

(***************************************************************************)
(* INSERT INTO enrollment (student_id, section_id) VALUES (s, x)           *)
(* Step 1: trigger before_enrollment_insert reads capacity and the count   *)
(* of Enrolled rows (plain SELECTs: non-locking consistent reads).         *)
(***************************************************************************)
before_enrollment_insert(s, x) ==
    /\ session[s].stmt = "none"
    /\ next_enrollment_id + InFlight("insert_enrollment") <= MaxEnrollmentRows
    /\ next_audit_id + PendingAudits <= MaxAudit
    /\ session' = [session EXCEPT ![s] =
                     [IdleSession EXCEPT
                        !.stmt = "insert_enrollment", !.section_id = x,
                        !.section_capacity = section[x].capacity,
                        !.current_enrollment = CountEnrolled(enrollment, x)]]
    /\ UNCHANGED <<section, enrollment, next_enrollment_id, waitlist,
                   next_waitlist_id, audit_log, next_audit_id>>

BeforeEnrollmentInsert(s, x) ==
    /\ before_enrollment_insert(s, x)
    /\ UNCHANGED <<appVars, chatVars, call>>

\* The trigger's IF: SIGNAL SQLSTATE '45000' when the section is full
SectionIsFull(current_enrollment, section_capacity) ==
    current_enrollment >= section_capacity

\* audit_log row written by after_enrollment_insert
AuditEnrollmentCreate(row) ==
    [user_id |-> UserIdOf(row.student_id), action_type |-> "ENROLLMENT_CREATE",
     object_type |-> "enrollment", object_id |-> row.enrollment_id,
     details |-> [section_id |-> row.section_id, status |-> row.enrollment_status]]

\* audit_log row written by after_enrollment_update
AuditEnrollmentUpdate(old, new) ==
    [user_id |-> UserIdOf(new.student_id), action_type |-> "ENROLLMENT_UPDATE",
     object_type |-> "enrollment", object_id |-> new.enrollment_id,
     details |-> [old_status |-> old.enrollment_status,
                  new_status |-> new.enrollment_status]]

(***************************************************************************)
(* Step 2: the trigger's capacity test, then the row write: the row takes  *)
(* its AUTO_INCREMENT value and the unique key is checked.  An error ends  *)
(* the statement: the trigger's SIGNAL ('Section is at full capacity') or  *)
(* the duplicate-key error.  A row that was written is not committed until *)
(* the statement ends (step 4).  Nothing serialises two statements between *)
(* their steps (the rows of different students do not lock each other and  *)
(* innodb_autoinc_lock_mode is 2).                                         *)
(***************************************************************************)
EnrollmentInsertOutcome(s) ==
    IF SectionIsFull(session[s].current_enrollment, session[s].section_capacity)
    THEN "section_full"
    ELSE IF EnrollmentRowsOf(s, session[s].section_id) # {}
    THEN "duplicate_entry"
    ELSE "ok"

\* An INSERT whose error does not stop the row and its audit row from being
\* stored (mutation of the next)
insert_enrollment_unchecked(s) ==
    /\ session[s].stmt = "insert_enrollment"
    /\ LET row == [enrollment_id |-> next_enrollment_id, student_id |-> s,
                   section_id |-> session[s].section_id,
                   enrollment_status |-> "Enrolled"]
       IN IF EnrollmentInsertOutcome(s) = "ok"
          THEN /\ next_enrollment_id' = next_enrollment_id + 1
               /\ session' = [session EXCEPT
                                 ![s].stmt = "after_enrollment_insert",
                                 ![s].enrollment_id = next_enrollment_id]
               /\ UNCHANGED <<enrollment, audit_log, next_audit_id>>
          ELSE /\ next_enrollment_id' = next_enrollment_id + 1
               /\ enrollment' = enrollment \cup {row}
               /\ audit_log' = InsertAudit(audit_log,
                                  [audit_id |-> next_audit_id]
                                     @@ AuditEnrollmentCreate(row))
               /\ next_audit_id' = next_audit_id + 1
               /\ session' = [session EXCEPT ![s] = IdleSession]
    /\ UNCHANGED <<section, waitlist, next_waitlist_id>>

insert_enrollment(s) ==
    /\ session[s].stmt = "insert_enrollment"
    /\ CASE EnrollmentInsertOutcome(s) = "ok" ->
              /\ next_enrollment_id' = next_enrollment_id + 1
              /\ session' = [session EXCEPT
                                ![s].stmt = "after_enrollment_insert",
                                ![s].enrollment_id = next_enrollment_id]
         \* the SIGNAL of the BEFORE trigger comes before the row gets its id
         [] EnrollmentInsertOutcome(s) = "section_full" ->
              /\ UNCHANGED next_enrollment_id
              /\ session' = [session EXCEPT ![s] = IdleSession]
         \* InnoDB generates the AUTO_INCREMENT value before it checks the
         \* unique key and does not give it back
         [] EnrollmentInsertOutcome(s) = "duplicate_entry" ->
              /\ next_enrollment_id' = next_enrollment_id + 1
              /\ session' = [session EXCEPT ![s] = IdleSession]
    /\ UNCHANGED <<section, enrollment, waitlist, next_waitlist_id, audit_log,
                   next_audit_id>>

EnrollmentInsert(s) ==
    /\ insert_enrollment(s)
    /\ UNCHANGED <<appVars, chatVars, call>>

(***************************************************************************)
(* Step 3: trigger after_enrollment_insert runs its INSERT INTO audit_log: *)
(* the audit row takes its audit_id.  It is not committed yet, and another *)
(* statement can take a later audit_id and commit first.                   *)
(***************************************************************************)
\* the row the statement wrote at step 2
WrittenRow(s) ==
    [enrollment_id |-> session[s].enrollment_id, student_id |-> s,
     section_id |-> session[s].section_id, enrollment_status |-> "Enrolled"]

after_enrollment_insert(s) ==
    /\ session[s].stmt = "after_enrollment_insert"
    /\ next_audit_id' = next_audit_id + 1
    /\ session' = [session EXCEPT ![s].stmt = "commit_enrollment_insert",
                                  ![s].audit_id = next_audit_id]
    /\ UNCHANGED <<section, enrollment, next_enrollment_id, waitlist,
                   next_waitlist_id, audit_log>>

AfterEnrollmentInsert(s) ==
    /\ after_enrollment_insert(s)
    /\ UNCHANGED <<appVars, chatVars, call>>

(***************************************************************************)
(* Step 4: the statement ends and, under autocommit, commits: its row and  *)
(* its audit row become visible to the other connections.                  *)
(***************************************************************************)
commit_enrollment_insert(s) ==
    /\ session[s].stmt = "commit_enrollment_insert"
    /\ enrollment' = enrollment \cup {WrittenRow(s)}
    /\ audit_log' = InsertAudit(audit_log,
                       [audit_id |-> session[s].audit_id]
                          @@ AuditEnrollmentCreate(WrittenRow(s)))
    /\ session' = [session EXCEPT ![s] = IdleSession]
    /\ UNCHANGED <<section, next_enrollment_id, waitlist, next_waitlist_id,
                   next_audit_id>>

EnrollmentInsertCommit(s) ==
    /\ commit_enrollment_insert(s)
    /\ UNCHANGED <<appVars, chatVars, call>>

(***************************************************************************)
(* UPDATE enrollment SET enrollment_status = st                            *)
(*  WHERE student_id = s AND section_id = x                                *)
(* No BEFORE UPDATE trigger exists.  Step 1: the row is written and        *)
(* after_enrollment_update runs its INSERT INTO audit_log, which takes its *)
(* audit_id.  Step 2: the statement ends and commits.  The row is locked   *)
(* in between, and the other connections read its committed version.       *)
(***************************************************************************)
\* rows matched by the UPDATE: "ok" (1 row) or "no_rows" (0 rows affected)
UpdateEnrollmentOutcome(s, x) ==
    IF EnrollmentRowsOf(s, x) = {} THEN "no_rows" ELSE "ok"

\* An UPDATE that matches no row changes nothing: a stuttering step.
update_enrollment(s, x, st) ==
    /\ session[s].stmt = "none"
    /\ UpdateEnrollmentOutcome(s, x) = "ok"
    /\ next_audit_id + PendingAudits <= MaxAudit
    /\ next_audit_id' = next_audit_id + 1
    /\ session' = [session EXCEPT ![s] =
                     [IdleSession EXCEPT
                        !.stmt = "commit_enrollment_update", !.section_id = x,
                        !.new_status = st, !.audit_id = next_audit_id]]
    /\ UNCHANGED <<section, enrollment, next_enrollment_id, waitlist,
                   next_waitlist_id, audit_log>>

UpdateEnrollmentStatus(s, x, st) ==
    /\ update_enrollment(s, x, st)
    /\ UNCHANGED <<appVars, chatVars, call>>

\* the row the UPDATE matched, before and after
UpdatedRowOld(s) ==
    CHOOSE e \in EnrollmentRowsOf(s, session[s].section_id) : TRUE
UpdatedRowNew(s) ==
    [UpdatedRowOld(s) EXCEPT !.enrollment_status = session[s].new_status]

commit_enrollment_update(s) ==
    /\ session[s].stmt = "commit_enrollment_update"
    /\ enrollment' = (enrollment \ {UpdatedRowOld(s)}) \cup {UpdatedRowNew(s)}
    /\ audit_log' = InsertAudit(audit_log,
                       [audit_id |-> session[s].audit_id]
                          @@ AuditEnrollmentUpdate(UpdatedRowOld(s), UpdatedRowNew(s)))
    /\ session' = [session EXCEPT ![s] = IdleSession]
    /\ UNCHANGED <<section, next_enrollment_id, waitlist, next_waitlist_id,
                   next_audit_id>>

EnrollmentUpdateCommit(s) ==
    /\ commit_enrollment_update(s)
    /\ UNCHANGED <<appVars, chatVars, call>>

(***************************************************************************)
(* INSERT INTO waitlist (section_id, student_id) VALUES (x, s)             *)
(* Step 1: trigger before_waitlist_insert reads MAX(position).             *)
(***************************************************************************)
BeforeWaitlistInsert(s, x) ==
    /\ UNCHANGED <<appVars, chatVars, call>>
    /\ session[s].stmt = "none"
    /\ next_waitlist_id + InFlight("insert_waitlist") <= MaxWaitlistRows
    /\ session' = [session EXCEPT ![s] =
                     [IdleSession EXCEPT
                        !.stmt = "insert_waitlist", !.section_id = x,
                        !.next_position = NextPosition(waitlist, x)]]
    /\ UNCHANGED <<section, enrollment, next_enrollment_id, waitlist,
                   next_waitlist_id, audit_log, next_audit_id>>

\* Step 2: SET NEW.position and the row write: the row takes its
\* AUTO_INCREMENT value and the unique key is checked.
WaitlistInsertOutcome(s) ==
    IF WaitlistRowsOf(s, session[s].section_id) # {} THEN "duplicate_entry" ELSE "ok"

WaitlistInsert(s) ==
    /\ UNCHANGED <<appVars, chatVars, call>>
    /\ session[s].stmt = "insert_waitlist"
    /\ next_waitlist_id' = next_waitlist_id + 1
    /\ IF WaitlistInsertOutcome(s) = "ok"
       THEN session' = [session EXCEPT ![s].stmt = "commit_waitlist_insert",
                                       ![s].waitlist_id = next_waitlist_id]
       \* the AUTO_INCREMENT value generated for the rejected row is lost
       ELSE session' = [session EXCEPT ![s] = IdleSession]
    /\ UNCHANGED <<section, enrollment, next_enrollment_id, waitlist, audit_log,
                   next_audit_id>>

\* Step 3: the statement ends and commits: the row becomes visible.
WaitlistInsertCommit(s) ==
    /\ UNCHANGED <<appVars, chatVars, call>>
    /\ session[s].stmt = "commit_waitlist_insert"
    /\ waitlist' = waitlist \cup
          {[waitlist_id |-> session[s].waitlist_id,
            section_id |-> session[s].section_id,
            student_id |-> s, position |-> session[s].next_position]}
    /\ session' = [session EXCEPT ![s] = IdleSession]
    /\ UNCHANGED <<section, enrollment, next_enrollment_id, next_waitlist_id,
                   audit_log, next_audit_id>>

(***************************************************************************)
(* DELETE FROM waitlist WHERE section_id = x AND student_id = s            *)
(* The schema has no trigger on DELETE.                                    *)
(***************************************************************************)
WaitlistDeleteOutcome(s, x) ==
    IF WaitlistRowsOf(s, x) = {} THEN "no_rows" ELSE "ok"

\* A DELETE that matches no row changes nothing: a stuttering step.
WaitlistDelete(s, x) ==
    /\ session[s].stmt = "none"
    /\ WaitlistDeleteOutcome(s, x) = "ok"
    /\ waitlist' = waitlist \ WaitlistRowsOf(s, x)
    /\ UNCHANGED <<section, enrollment, next_enrollment_id, next_waitlist_id,
                   audit_log, next_audit_id, session>>
    /\ UNCHANGED <<appVars, chatVars, call>>

\* The statements on enrollment and waitlist, the UPDATEs being those of a
\* drop and of a return to Enrolled
EnrollAndDropStatus == {"Enrolled", "Dropped"}
NextDb ==
    \/ \E s \in Students, x \in Sections : BeforeEnrollmentInsert(s, x)
    \/ \E s \in Students : EnrollmentInsert(s)
    \/ \E s \in Students : AfterEnrollmentInsert(s)
    \/ \E s \in Students : EnrollmentInsertCommit(s)
    \/ \E s \in Students, x \in Sections, st \in EnrollAndDropStatus :
          UpdateEnrollmentStatus(s, x, st)
    \/ \E s \in Students : EnrollmentUpdateCommit(s)
    \/ \E s \in Students, x \in Sections : BeforeWaitlistInsert(s, x)
    \/ \E s \in Students : WaitlistInsert(s)
    \/ \E s \in Students : WaitlistInsertCommit(s)
    \/ \E s \in Students, x \in Sections : WaitlistDelete(s, x)

(***************************************************************************)
(* Enrollment requests launched side by side: every student sends one      *)
(* INSERT INTO enrollment, each on its own connection.                     *)
(***************************************************************************)
RequestEnrollment(s, x) ==
    /\ call[s].pc = "ready"
    /\ before_enrollment_insert(s, x)
    /\ call' = [call EXCEPT ![s] = [pc |-> "running", section_id |-> x,
                                    outcome |-> "none"]]
    /\ UNCHANGED <<appVars, chatVars>>

\* The request's statement writes its row and goes on to its AFTER trigger
RequestInserts(s) ==
    /\ call[s].pc = "running"
    /\ EnrollmentInsertOutcome(s) = "ok"
    /\ insert_enrollment(s)
    /\ UNCHANGED call
    /\ UNCHANGED <<appVars, chatVars>>

\* The request's statement ends, at step 2 with an error or at step 4 with
\* its commit, and its result is returned to the client
RequestReturns(s) ==
    /\ call[s].pc = "running"
    /\ \/ /\ session[s].stmt = "insert_enrollment"
          /\ EnrollmentInsertOutcome(s) # "ok"
          /\ insert_enrollment(s)
          /\ call' = [call EXCEPT ![s] =
                         [pc |-> "done", section_id |-> call[s].section_id,
                          outcome |-> EnrollmentInsertOutcome(s)]]
       \/ /\ commit_enrollment_insert(s)
          /\ call' = [call EXCEPT ![s] =
                         [pc |-> "done", section_id |-> call[s].section_id,
                          outcome |-> "ok"]]
    /\ UNCHANGED <<appVars, chatVars>>

NextRace ==
    \/ \E s \in Students, x \in Sections : RequestEnrollment(s, x)
    \/ \E s \in Students : RequestInserts(s)
    \/ \E s \in Students : AfterEnrollmentInsert(s)
    \/ \E s \in Students : RequestReturns(s)

(***************************************************************************)
(* The INSERT INTO audit_log of a trigger raises an error (lock wait        *)
(* timeout, deadlock, full disk).  The triggers declare no handler, so the  *)
(* error ends the statement that fired the trigger; the tables are InnoDB,  *)
(* so the statement's own row change is rolled back with it.                *)
(***************************************************************************)
\* INSERT INTO enrollment whose after_enrollment_insert fails, at once or
\* after it has waited: the row written at step 2 is rolled back, the
\* AUTO_INCREMENT value it took then is lost
RequestFailsOnAudit(s) ==
    /\ call[s].pc = "running"
    /\ session[s].stmt = "after_enrollment_insert"
    /\ session' = [session EXCEPT ![s] = IdleSession]
    /\ call' = [call EXCEPT ![s] = [pc |-> "done", section_id |-> call[s].section_id,
                                    outcome |-> "audit_failed"]]
    /\ UNCHANGED <<section, enrollment, next_enrollment_id, waitlist,
                   next_waitlist_id, audit_log, next_audit_id>>
    /\ UNCHANGED <<appVars, chatVars>>

\* UPDATE enrollment SET enrollment_status = st whose after_enrollment_update
\* fails: the row change is rolled back before anyone could read it
UpdateFailsOnAudit(s, x, st) ==
    /\ call[s].pc = "done" /\ call[s].outcome = "ok"
    /\ session[s].stmt = "none"
    /\ UpdateEnrollmentOutcome(s, x) = "ok"
    /\ call' = [call EXCEPT ![s] = [pc |-> "done", section_id |-> x,
                                    outcome |-> "audit_failed"]]
    /\ UNCHANGED dbVars
    /\ UNCHANGED <<appVars, chatVars>>

\* A student whose request has returned sends another INSERT INTO enrollment
RetryEnrollment(s, x) ==
    /\ call[s].pc = "done"
    /\ before_enrollment_insert(s, x)
    /\ call' = [call EXCEPT ![s] = [pc |-> "running", section_id |-> x,
                                    outcome |-> "none"]]
    /\ UNCHANGED <<appVars, chatVars>>

NextRetry ==
    \/ \E s \in Students, x \in Sections : RequestEnrollment(s, x)
    \/ \E s \in Students, x \in Sections : RetryEnrollment(s, x)
    \/ \E s \in Students : RequestInserts(s)
    \/ \E s \in Students : AfterEnrollmentInsert(s)
    \/ \E s \in Students : RequestReturns(s)
    \/ \E s \in Students, x \in Sections : UpdateEnrollmentStatus(s, x, "Dropped")
    \/ \E s \in Students : EnrollmentUpdateCommit(s)

NextFault ==
    \/ \E s \in Students, x \in Sections : RequestEnrollment(s, x)
    \/ \E s \in Students : RequestInserts(s)
    \/ \E s \in Students : AfterEnrollmentInsert(s)
    \/ \E s \in Students : RequestReturns(s)
    \/ \E s \in Students : RequestFailsOnAudit(s)
    \/ \E s \in Students, x \in Sections, st \in EnrollmentStatus :
          UpdateFailsOnAudit(s, x, st)

(***************************************************************************)
(*                       The React client (App.jsx)                        *)
(***************************************************************************)
MaxEnrollments == 3
MaxDrops == 2
MaxFailedLogins == 1
MaxTimers == 2

NoUser == [id |-> 0, username |-> "", email |-> "", password |-> <<>>, name |-> "",
           role |-> "", major |-> "", completedCourses |-> {}]
NoNotification == [message |-> "", type |-> ""]

\* The characters of the strings the forms of the model hold
Chars(str) ==
    CASE
            str = "a@b.c" -> <<"a", "@", "b", ".", "c">>
         [] str = "d@e.f" -> <<"d", "@", "e", ".", "f">>
         [] str = "a@b" -> <<"a", "@", "b">>
         [] str = "student@umgc.edu" -> <<"s", "t", "u", "d", "e", "n", "t", "@", "u", "m", "g", "c", ".", "e", "d", "u">>
         [] str = "new_1" -> <<"n", "e", "w", "_", "1">>
         [] str = "abc" -> <<"a", "b", "c">>
         [] str = "ab" -> <<"a", "b">>
         [] str = "johndoe" -> <<"j", "o", "h", "n", "d", "o", "e">>
         [] str = "StudentPass123!" -> <<"S", "t", "u", "d", "e", "n", "t", "P", "a", "s", "s", "1", "2", "3", "!">>
         [] str = "Password1234!" -> <<"P", "a", "s", "s", "w", "o", "r", "d", "1", "2", "3", "4", "!">>
         [] str = "weak" -> <<"w", "e", "a", "k">>
         [] str = "AdminPass123!" -> <<"A", "d", "m", "i", "n", "P", "a", "s", "s", "1", "2", "3", "!">>
         [] str = "StudentPass123!StudentPass123!Student12a" -> <<"S", "t", "u", "d", "e", "n", "t", "P", "a", "s", "s", "1", "2", "3", "!", "S", "t", "u", "d", "e", "n", "t", "P", "a", "s", "s", "1", "2", "3", "!", "S", "t", "u", "d", "e", "n", "t", "1", "2", "a">>
         [] str = "StudentPass123!StudentPass123!Student12b" -> <<"S", "t", "u", "d", "e", "n", "t", "P", "a", "s", "s", "1", "2", "3", "!", "S", "t", "u", "d", "e", "n", "t", "P", "a", "s", "s", "1", "2", "3", "!", "S", "t", "u", "d", "e", "n", "t", "1", "2", "b">>

LowerCase == <<"a", "b", "c", "d", "e", "f", "g", "h", "i", "j", "k", "l", "m", "n", "o", "p", "q", "r", "s", "t", "u", "v", "w", "x", "y", "z">>
UpperCase == <<"A", "B", "C", "D", "E", "F", "G", "H", "I", "J", "K", "L", "M", "N", "O", "P", "Q", "R", "S", "T", "U", "V", "W", "X", "Y", "Z">>
Digits == {"0", "1", "2", "3", "4", "5", "6", "7", "8", "9"}
SpecialChars == {"!", "@", "#", "$", "%", "^", "&", "*", "(", ")", ",", ".", "?", "\"", ":", "{", "}", "|", "<", ">"}

\* String.prototype.charCodeAt(0) of the characters above
CharCode(c) ==
    CASE \E k \in 1..Len(LowerCase) : LowerCase[k] = c
             -> 96 + (CHOOSE k \in 1..Len(LowerCase) : LowerCase[k] = c)
      [] \E k \in 1..Len(UpperCase) : UpperCase[k] = c
             -> 64 + (CHOOSE k \in 1..Len(UpperCase) : UpperCase[k] = c)
      [] c = "0" -> 48 [] c = "1" -> 49 [] c = "2" -> 50 [] c = "3" -> 51
      [] c = "4" -> 52 [] c = "5" -> 53 [] c = "6" -> 54 [] c = "7" -> 55
      [] c = "8" -> 56 [] c = "9" -> 57
      [] c = "!" -> 33 [] c = "." -> 46 [] c = "@" -> 64 [] c = "_" -> 95

\* hashPassword: '$2b$10$' + btoa(password).substring(0, 53).  btoa writes
\* every 3 bytes as 4 characters, so the 53 characters kept are the whole
\* encoding of a password of at most 39 bytes (at most 52 characters, padding
\* included), and for a longer one the encoding of its first 39 bytes
\* followed by one character, the top 6 bits of byte 40.  The hash is given
\* as the prefix and what the kept characters encode.
hashPassword(password) ==
    LET s == Chars(password)
    IN <<"$2b$10$", IF Len(s) <= 39 THEN s
                    ELSE Append(SubSeq(s, 1, 39), CharCode(s[40]) \div 4)>>
verifyPassword(password, hash) == hashPassword(password) = hash

initializeDatabase ==
    [users |-> <<
        [id |-> 1, username |-> "johndoe", email |-> "student@umgc.edu",
         password |-> hashPassword("StudentPass123!"), name |-> "John Doe",
         role |-> "student", major |-> "Computer Science",
         completedCourses |-> {"CMSC210", "CMSC215"}],
        [id |-> 2, username |-> "drsmith", email |-> "admin@umgc.edu",
         password |-> hashPassword("AdminPass123!"), name |-> "Dr. Smith",
         role |-> "admin", major |-> "",
         completedCourses |-> {}] >>,
     courses |-> <<
        [id |-> 1, code |-> "CMSC495", department |-> "Computer Science",
         capacity |-> 30, enrolled |-> 18,
         prerequisites |-> {"CMSC330"}],
        [id |-> 2, code |-> "CMSC330", department |-> "Computer Science",
         capacity |-> 25, enrolled |-> 20,
         prerequisites |-> {"CMSC220"}],
        [id |-> 3, code |-> "CMSC220", department |-> "Computer Science",
         capacity |-> 30, enrolled |-> 22,
         prerequisites |-> {"CMSC210"}],
        [id |-> 4, code |-> "CMSC351", department |-> "Computer Science",
         capacity |-> 28, enrolled |-> 15,
         prerequisites |-> {"CMSC220"}] >>,
     enrollments |-> <<
        [id |-> 1, studentId |-> 1, courseId |-> 1, status |-> "enrolled"] >>,
     failedLogins |-> <<>>]

\* Inputs of the model
LoginNames == {"johndoe", "admin@umgc.edu", "nobody"}
LoginPasswords == {"StudentPass123!", "AdminPass123!"}
NumCourseInputs == 2
CourseIds == {initializeDatabase.courses[i].id : i \in 1..NumCourseInputs}

SeqToSet(q) == {q[i] : i \in 1..Len(q)}
SeqMap(q, F(_)) == [i \in 1..Len(q) |-> F(q[i])]

InitApp ==
    /\ db = initializeDatabase
    /\ snapshot = initializeDatabase
    /\ currentUser = NoUser
    /\ view = "login"
    /\ notification = NoNotification
    /\ timers = 0

\* showNotification(message, type): setNotification, then setTimeout(..., 4000)
showNotification(message, type) ==
    /\ timers < MaxTimers
    /\ notification' = [message |-> message, type |-> type]
    /\ timers' = timers + 1

\* the setTimeout callback: setNotification(null)
NotificationTimeout ==
    /\ UNCHANGED <<dbVars, chatVars, call>>
    /\ timers > 0
    /\ notification' = NoNotification
    /\ timers' = timers - 1
    /\ UNCHANGED <<db, snapshot, currentUser, view>>

\* React re-renders App: the handlers close over the new db
Render ==
    /\ UNCHANGED <<dbVars, chatVars, call>>
    /\ snapshot # db
    /\ snapshot' = db
    /\ UNCHANGED <<db, currentUser, view, notification, timers>>

\* React renders App again after every event that set state, before it
\* dispatches the next event: a click always meets the page of the latest db.
PageRendered == snapshot = db

\* db.users.find((u) => u.username === username || u.email === username)
FindUser(users, username) ==
    LET hits == {i \in 1..Len(users) :
                    users[i].username = username \/ users[i].email = username}
    IN IF hits = {} THEN NoUser
       ELSE users[CHOOSE i \in hits : \A j \in hits : i <= j]

handleLogin(username, password) ==
    /\ UNCHANGED <<dbVars, chatVars, call>>
    /\ view = "login"
    /\ LET user == FindUser(snapshot.users, username)
       IN IF user = NoUser \/ ~verifyPassword(password, user.password)
          THEN /\ Len(db.failedLogins) < MaxFailedLogins
               /\ db' = [db EXCEPT !.failedLogins =
                           Append(@, [username |-> username,
                                      reason |-> IF user = NoUser
                                                 THEN "User not found"
                                                 ELSE "Invalid password"])]
               /\ showNotification("Invalid credentials", "error")
               /\ UNCHANGED <<currentUser, view>>
          ELSE /\ currentUser' = user
               /\ view' = (IF user.role = "admin" THEN "admin" ELSE "dashboard")
               /\ showNotification("Welcome " \o user.name \o "!", "success")
               /\ UNCHANGED db
    /\ snapshot' = db'

\* The Login button of LoginPage
onLogin(username, password) ==
    /\ PageRendered
    /\ handleLogin(username, password)

\* A logout that leaves the user signed in (mutation of the next)
onLogoutKeepsUser ==
    /\ UNCHANGED <<dbVars, chatVars, call>>
    /\ PageRendered
    /\ view \in {"dashboard", "admin"}
    /\ view' = "login"
    /\ showNotification("Logged out", "success")
    /\ snapshot' = db
    /\ UNCHANGED <<db, currentUser>>

\* onLogout of StudentDashboard and AdminPanel
onLogout ==
    /\ UNCHANGED <<dbVars, chatVars, call>>
    /\ PageRendered
    /\ view \in {"dashboard", "admin"}
    /\ currentUser' = NoUser
    /\ view' = "login"
    /\ showNotification("Logged out", "success")
    /\ snapshot' = db
    /\ UNCHANGED db

\* The catalog: the ids a course can have, the courses the rendered page
\* lists, and the seeded courses that courses no longer holds
MaxCourses == 4
MaxDeletes == 1
CatalogIds == 1..(MaxCourses + 1)
RenderedCourseIds == {snapshot.courses[i].id : i \in 1..Len(snapshot.courses)}
DeletedSeedCourses(courses) ==
    {initializeDatabase.courses[i].id : i \in 1..Len(initializeDatabase.courses)}
       \ {courses[i].id : i \in 1..Len(courses)}

\* isEnrolled(courseId), on the enrollments array e
isEnrolled(e, studentId, courseId) ==
    \E i \in 1..Len(e) : /\ e[i].studentId = studentId
                         /\ e[i].courseId = courseId
                         /\ e[i].status = "enrolled"

\* db.courses.find((c) => c.id === courseId)
FindCourse(courses, courseId) ==
    LET hits == {i \in 1..Len(courses) : courses[i].id = courseId}
    IN courses[CHOOSE i \in hits : \A j \in hits : i <= j]

\* c.prerequisites.every((p) => completed.includes(p)), as the course
\* recommendations compute it; handleEnroll never evaluates it
PrerequisitesMet(course, user) == course.prerequisites \subseteq user.completedCourses

\* the capacity test of handleEnroll
CourseFull(course) == course.enrolled >= course.capacity

\* the setDb updater of handleEnroll, applied to the latest state prev
EnrollUpdater(prev, studentId, courseId) ==
    [prev EXCEPT
        !.enrollments = Append(@, [id |-> Len(prev.enrollments) + 1,
                                   studentId |-> studentId,
                                   courseId |-> courseId,
                                   status |-> "enrolled"]),
        !.courses = SeqMap(@, LAMBDA c : IF c.id = courseId
                                         THEN [c EXCEPT !.enrolled = c.enrolled + 1]
                                         ELSE c)]

\* (for an id the page does not list, find returns undefined and
\* course.enrolled throws before any state is set)
handleEnroll(courseId) ==
    /\ UNCHANGED <<dbVars, chatVars, call>>
    /\ view = "dashboard"
    /\ courseId \in RenderedCourseIds
    /\ IF CourseFull(FindCourse(snapshot.courses, courseId))
       THEN /\ showNotification("Course full", "error")
            /\ UNCHANGED db
       ELSE /\ Len(db.enrollments) < MaxEnrollments
            /\ db' = EnrollUpdater(db, currentUser.id, courseId)
            /\ showNotification("Enrolled successfully", "success")
    /\ UNCHANGED <<snapshot, currentUser, view>>

\* A drop that leaves the enrolled counters alone (mutation of the next)
DropUpdaterKeepsCounter(prev, studentId, courseId) ==
    [prev EXCEPT
        !.enrollments = SeqMap(@, LAMBDA e : IF e.studentId = studentId
                                                /\ e.courseId = courseId
                                             THEN [e EXCEPT !.status = "dropped"]
                                             ELSE e)]

\* A drop that removes the record (mutation of the next)
DropUpdaterRemoves(prev, studentId, courseId) ==
    [prev EXCEPT
        !.enrollments = SelectSeq(@, LAMBDA e : ~(e.studentId = studentId
                                                   /\ e.courseId = courseId)),
        !.courses = SeqMap(@, LAMBDA c : IF c.id = courseId
                                         THEN [c EXCEPT !.enrolled = c.enrolled - 1]
                                         ELSE c)]

\* the setDb updater of handleDrop, applied to the latest state prev
DropUpdater(prev, studentId, courseId) ==
    [prev EXCEPT
        !.enrollments = SeqMap(@, LAMBDA e : IF e.studentId = studentId
                                                /\ e.courseId = courseId
                                             THEN [e EXCEPT !.status = "dropped"]
                                             ELSE e),
        !.courses = SeqMap(@, LAMBDA c : IF c.id = courseId
                                         THEN [c EXCEPT !.enrolled = c.enrolled - 1]
                                         ELSE c)]

handleDrop(courseId) ==
    /\ UNCHANGED <<dbVars, chatVars, call>>
    /\ view = "dashboard"
    /\ FindCourse(initializeDatabase.courses, courseId).enrolled
          - FindCourse(db.courses, courseId).enrolled < MaxDrops
    /\ db' = DropUpdater(db, currentUser.id, courseId)
    /\ showNotification("Course dropped", "success")
    /\ UNCHANGED <<snapshot, currentUser, view>>

\* getEnrolledCourses(): the courses of the user's 'enrolled' records that
\* courses still holds, as the ids the Drop buttons pass
getEnrolledCourses(d, user) ==
    {d.enrollments[i].courseId :
        i \in {k \in 1..Len(d.enrollments) :
                 /\ d.enrollments[k].studentId = user.id
                 /\ d.enrollments[k].status = "enrolled"
                 /\ \E m \in 1..Len(d.courses) :
                       d.courses[m].id = d.enrollments[k].courseId}}

\* getCourseRecommendations(): the first three courses the student is not
\* enrolled in, has the prerequisites of, and that are of the student's major
getCourseRecommendations(d, user) ==
    IF user.role # "student" THEN <<>>
    ELSE LET fit == SelectSeq(d.courses,
                       LAMBDA c : /\ ~isEnrolled(d.enrollments, user.id, c.id)
                                  /\ PrerequisitesMet(c, user)
                                  /\ c.department = user.major)
         IN SubSeq(fit, 1, IF Len(fit) < 3 THEN Len(fit) ELSE 3)

\* The Enroll buttons of StudentDashboard that pass courseId and are not
\* disabled: the one of a listed course (with no search term and every
\* department selected the list is db.courses) is disabled when the student
\* is enrolled or the listed course is full, the one of a recommended
\* course when the student is enrolled.
EnrollButtonEnabled(d, user, courseId) ==
    /\ ~isEnrolled(d.enrollments, user.id, courseId)
    /\ \/ \E i \in 1..Len(d.courses) :
             d.courses[i].id = courseId /\ ~CourseFull(d.courses[i])
       \/ LET recommendations == getCourseRecommendations(d, user)
          IN \E i \in 1..Len(recommendations) : recommendations[i].id = courseId

\* A click on an Enroll button of the rendered page
onEnroll(courseId) ==
    /\ PageRendered
    /\ view = "dashboard"
    /\ EnrollButtonEnabled(snapshot, currentUser, courseId)
    /\ handleEnroll(courseId)

\* A click on a Drop button of the rendered page (My Courses lists
\* getEnrolledCourses())
onDrop(courseId) ==
    /\ PageRendered
    /\ view = "dashboard"
    /\ courseId \in getEnrolledCourses(snapshot, currentUser)
    /\ handleDrop(courseId)

\* parseInt of a string of decimal digits, given as the sequence of its digits
RECURSIVE parseInt(_)
parseInt(digits) ==
    IF Len(digits) = 1 THEN digits[1]
    ELSE 10 * parseInt(SubSeq(digits, 1, Len(digits) - 1)) + digits[Len(digits)]

\* The course form of AdminPanel as the administrator filled it in; the
\* prerequisites field is given as its comma-separated pieces, trimmed.
CourseForms ==
    {[code |-> "CMSC100", title |-> "Intro", department |-> "Computer Science",
      capacity |-> <<1>>, prerequisites |-> <<>>],
     [code |-> "", title |-> "Intro", department |-> "Computer Science",
      capacity |-> <<3, 0>>, prerequisites |-> <<"CMSC100">>]}

handleAddCourse(courseForm) ==
    /\ UNCHANGED <<dbVars, chatVars, call>>
    /\ view = "admin"
    /\ IF courseForm.code = "" \/ courseForm.title = "" \/ courseForm.department = ""
       THEN /\ showNotification("Fill all required fields", "error")
            /\ UNCHANGED db
       ELSE /\ Len(db.courses) < MaxCourses
            /\ db' = [db EXCEPT !.courses =
                        Append(@, [id |-> Len(snapshot.courses) + 1,
                                   code |-> courseForm.code,
                                   department |-> courseForm.department,
                                   capacity |-> parseInt(courseForm.capacity),
                                   enrolled |-> 0,
                                   prerequisites |->
                                      SeqToSet(courseForm.prerequisites)])]
            /\ showNotification("Course added successfully", "success")
    /\ UNCHANGED <<snapshot, currentUser, view>>

handleDeleteCourse(courseId) ==
    /\ UNCHANGED <<dbVars, chatVars, call>>
    /\ view = "admin"
    /\ courseId \in RenderedCourseIds
    /\ Cardinality(DeletedSeedCourses(db.courses)) < MaxDeletes
    /\ db' = [db EXCEPT !.courses = SelectSeq(@, LAMBDA c : c.id # courseId)]
    /\ showNotification("Course deleted", "success")
    /\ UNCHANGED <<snapshot, currentUser, view>>

\* The Add Course button of AdminPanel
AddCourseButton(courseForm) ==
    /\ PageRendered
    /\ handleAddCourse(courseForm)

\* The delete button of a course AdminPanel lists
DeleteCourseButton(courseId) ==
    /\ PageRendered
    /\ handleDeleteCourse(courseId)

NextApp ==
    \/ \E u \in LoginNames, p \in LoginPasswords : onLogin(u, p)
    \/ onLogout
    \/ \E c \in CourseIds : onEnroll(c)
    \/ \E c \in CourseIds : onDrop(c)
    \/ Render
    \/ NotificationTimeout

(***************************************************************************)
(*                The AI Advisor widget (components/Chatbot.jsx)           *)
(***************************************************************************)
\* A text is the sequence of its pieces; a typed text is given character by
\* character.  The message ids (Date.now()) are left out.
MaxSends == 2
\* The characters String.prototype.trim removes and \s matches; one that has
\* no escape in a string is written as its code point.
Whitespace ==
    {" ", "\t", "\n", "\f", "\r", "U+000B", "U+00A0", "U+1680", "U+2000", "U+2001",
     "U+2002", "U+2003", "U+2004", "U+2005", "U+2006", "U+2007", "U+2008",
     "U+2009", "U+200A", "U+2028", "U+2029", "U+202F", "U+205F", "U+3000",
     "U+FEFF"}
ChatInputs ==
    {<<" ">>, <<"\t">>, <<"h", "i">>, <<" ", "h", "i", " ">>,
     <<"U+00A0", "h", "i", "\r", "\n">>}

GreetingText ==
    <<"Hi! I'm the OCRS AI Advisor. I can help with registration and system ",
      "questions (how to register, drop, course status, login issues) and ",
      "also with academic planning (what to take next, prerequisites, GPA, etc.). ",
      "What would you like help with?">>
DefaultText ==
    <<"I'm not sure I understood that. Try asking about registration steps, dropping a course, prerequisites, or course planning.">>
FallbackText ==
    <<"Sorry, I couldn't reach the AI Advisor service. ",
      "Make sure the backend is running on http://127.0.0.1:5001. ",
      "You can still use the Courses tab and enroll/drop buttons on this page.">>

\* String.prototype.trim
RECURSIVE TrimStart(_)
TrimStart(s) == IF s # <<>> /\ Head(s) \in Whitespace THEN TrimStart(Tail(s)) ELSE s
RECURSIVE TrimEnd(_)
TrimEnd(s) ==
    IF s # <<>> /\ s[Len(s)] \in Whitespace THEN TrimEnd(SubSeq(s, 1, Len(s) - 1)) ELSE s
Trim(s) == TrimEnd(TrimStart(s))

\* What the fetch of handleSend can come back with: the promise rejects
\* (network error), or resolves with response.ok and a body that
\* response.json() can or cannot parse; an absent field of the body is "".
NoBody == [data_reply |-> "", reply |-> "", message |-> ""]
ChatResponses ==
    {[rejects |-> TRUE,  ok |-> FALSE, parsable |-> FALSE, body |-> NoBody],
     [rejects |-> FALSE, ok |-> FALSE, parsable |-> TRUE,  body |-> NoBody],
     [rejects |-> FALSE, ok |-> TRUE,  parsable |-> FALSE, body |-> NoBody],
     [rejects |-> FALSE, ok |-> TRUE,  parsable |-> TRUE,
      body |-> [data_reply |-> "A", reply |-> "B", message |-> ""]],
     [rejects |-> FALSE, ok |-> TRUE,  parsable |-> TRUE,
      body |-> [data_reply |-> "", reply |-> "", message |-> "C"]],
     [rejects |-> FALSE, ok |-> TRUE,  parsable |-> TRUE,  body |-> NoBody]}

InitChat ==
    /\ messages = <<[sender |-> "bot", text |-> GreetingText]>>
    /\ input = <<>>
    /\ isSending = FALSE
    /\ chatClosure = [input |-> <<>>, isSending |-> FALSE]
    /\ requests = <<>>

\* data?.data?.reply || data?.reply || data?.message || "I'm not sure ..."
botText(data) ==
    IF data.data_reply # "" THEN <<data.data_reply>>
    ELSE IF data.reply # "" THEN <<data.reply>>
    ELSE IF data.message # "" THEN <<data.message>>
    ELSE DefaultText

\* the text of the bot message the try / catch of handleSend ends with
BotMessageText(response) ==
    IF response.rejects \/ ~response.ok \/ ~response.parsable
    THEN FallbackText
    ELSE botText(response.body)

\* setInput(e.target.value)
setInput(text) ==
    /\ UNCHANGED <<dbVars, appVars, call>>
    /\ input # text
    /\ input' = text
    /\ UNCHANGED <<messages, isSending, chatClosure, requests>>

\* React re-renders Chatbot: handleSend closes over the new input and isSending
ChatRender ==
    /\ UNCHANGED <<dbVars, appVars, call>>
    /\ chatClosure # [input |-> input, isSending |-> isSending]
    /\ chatClosure' = [input |-> input, isSending |-> isSending]
    /\ UNCHANGED <<messages, input, isSending, requests>>

\* The widget on the screen is the one rendered from the current state: React
\* re-renders after a key or click event before it dispatches the next one,
\* so that an event meets the handlers of the latest render
ChatRendered == chatClosure = [input |-> input, isSending |-> isSending]

\* if (!trimmed || isSending) return;  negated
handleSendAccepts ==
    /\ Trim(chatClosure.input) # <<>>
    /\ ~chatClosure.isSending

\* handleSend up to its await fetch(...); a call that returns at once
\* (blank input, or isSending) changes nothing
handleSend ==
    /\ UNCHANGED <<dbVars, appVars, call>>
    /\ handleSendAccepts
    /\ LET trimmed == Trim(chatClosure.input)
       IN /\ Cardinality({i \in 1..Len(messages) : messages[i].sender = "user"})
                < MaxSends
          /\ messages' = Append(messages, [sender |-> "user", text |-> trimmed])
          /\ input' = <<>>
          /\ isSending' = TRUE
          /\ requests' = Append(requests, [message |-> trimmed, awaiting |-> "fetch"])
    /\ UNCHANGED chatClosure

\* the textarea's onChange
onChange(text) ==
    /\ ChatRendered
    /\ setInput(text)

\* the textarea's onKeyDown with Enter and no Shift
handleKeyDown ==
    /\ ChatRendered
    /\ handleSend

\* a click on the Send button, which is disabled while isSending or while the
\* input is blank
SendButton ==
    /\ ChatRendered
    /\ ~(isSending \/ Trim(input) = <<>>)
    /\ handleSend

\* handleSend called again before React has re-rendered the widget: the call
\* runs the handleSend of the latest render, whose input and isSending are
\* those of that render
handleSendBeforeRender ==
    /\ ~ChatRendered
    /\ handleSend

\* requests without its i-th element
RequestSettled(i) ==
    [j \in 1..(Len(requests) - 1) |-> IF j < i THEN requests[j] ELSE requests[j + 1]]

\* A handleSend that shows no message when the fetch failed (mutation of the
\* next)
handleSendResumesSilently(i, response) ==
    /\ UNCHANGED <<dbVars, appVars, call>>
    /\ i \in 1..Len(requests)
    /\ requests[i].awaiting = "fetch"
    /\ IF response.rejects \/ ~response.ok
       THEN /\ messages' = messages
            /\ isSending' = FALSE
            /\ requests' = RequestSettled(i)
       ELSE /\ requests' = [requests EXCEPT ![i].awaiting = "json"]
            /\ UNCHANGED <<messages, isSending>>
    /\ UNCHANGED <<input, chatClosure>>

\* handleSend from the point its i-th pending fetch settles with response: on
\* a rejection or a response that is not ok, catch and finally; otherwise up
\* to its await response.json()
handleSendResumes(i, response) ==
    /\ UNCHANGED <<dbVars, appVars, call>>
    /\ i \in 1..Len(requests)
    /\ requests[i].awaiting = "fetch"
    /\ IF response.rejects \/ ~response.ok
       THEN /\ messages' = Append(messages, [sender |-> "bot", text |-> FallbackText])
            /\ isSending' = FALSE
            /\ requests' = RequestSettled(i)
       ELSE /\ requests' = [requests EXCEPT ![i].awaiting = "json"]
            /\ UNCHANGED <<messages, isSending>>
    /\ UNCHANGED <<input, chatClosure>>

\* handleSend from the point response.json() of its i-th request settles:
\* the rest of try, or catch when the body cannot be parsed, then finally
handleSendFinishes(i, response) ==
    /\ UNCHANGED <<dbVars, appVars, call>>
    /\ i \in 1..Len(requests)
    /\ requests[i].awaiting = "json"
    /\ ~response.rejects
    /\ response.ok
    /\ messages' = Append(messages, [sender |-> "bot",
                                     text |-> BotMessageText(response)])
    /\ isSending' = FALSE
    /\ requests' = RequestSettled(i)
    /\ UNCHANGED <<input, chatClosure>>

NextChat ==
    \/ \E text \in ChatInputs : onChange(text)
    \/ ChatRender
    \/ handleKeyDown
    \/ SendButton
    \/ \E i \in 1..MaxSends, response \in ChatResponses :
          handleSendResumes(i, response)
    \/ \E i \in 1..MaxSends, response \in ChatResponses :
          handleSendFinishes(i, response)

\* The widget's events and continuations, and calls of handleSend that do
\* not wait for the re-render
NextChatCalls ==
    \/ \E text \in ChatInputs : onChange(text)
    \/ ChatRender
    \/ handleKeyDown
    \/ SendButton
    \/ handleSendBeforeRender
    \/ \E i \in 1..MaxSends, response \in ChatResponses :
          handleSendResumes(i, response)
    \/ \E i \in 1..MaxSends, response \in ChatResponses :
          handleSendFinishes(i, response)

(***************************************************************************)
(*                     Registration (handleRegister)                       *)
(***************************************************************************)
\* String.prototype.toLowerCase
toLowerCase(s) ==
    [i \in 1..Len(s) |->
        IF \E k \in 1..Len(UpperCase) : UpperCase[k] = s[i]
        THEN LowerCase[CHOOSE k \in 1..Len(UpperCase) : UpperCase[k] = s[i]]
        ELSE s[i]]

\* String.prototype.includes
includes(s, sub) ==
    \E k \in 0..(Len(s) - Len(sub)) : SubSeq(s, k + 1, k + Len(sub)) = sub

COMMON_PASSWORDS ==
    <<
     <<"p", "a", "s", "s", "w", "o", "r", "d">>,
     <<"1", "2", "3", "4", "5", "6">>,
     <<"1", "2", "3", "4", "5", "6", "7", "8">>,
     <<"q", "w", "e", "r", "t", "y">>,
     <<"a", "b", "c", "1", "2", "3">>,
     <<"m", "o", "n", "k", "e", "y">>>>

\* /^[^\s@]+@[^\s@]+\.[^\s@]+$/.test(email)
EmailValid(email) ==
    LET s == Chars(email)
    IN \E i, j \in 1..Len(s) :
          /\ s[i] = "@"
          /\ s[j] = "."
          /\ 1 < i /\ i + 1 < j /\ j < Len(s)
          /\ \A k \in (1..Len(s)) \ {i} : s[k] \notin (Whitespace \cup {"@"})

\* /^[a-zA-Z0-9_]{3,20}$/.test(username)
UsernameValid(username) ==
    LET s == Chars(username)
    IN /\ Len(s) >= 3
       /\ Len(s) <= 20
       /\ \A k \in 1..Len(s) :
             s[k] \in SeqToSet(LowerCase) \cup SeqToSet(UpperCase) \cup Digits \cup {"_"}

\* validatePassword: the errors, in the order they are pushed
validatePassword(password) ==
    LET s == Chars(password)
        has(set) == \E k \in 1..Len(s) : s[k] \in set
    IN (IF Len(s) < 12 THEN <<"Min 12 characters">> ELSE <<>>)
       \o (IF ~has(SeqToSet(UpperCase)) THEN <<"Uppercase required">> ELSE <<>>)
       \o (IF ~has(SeqToSet(LowerCase)) THEN <<"Lowercase required">> ELSE <<>>)
       \o (IF ~has(Digits) THEN <<"Number required">> ELSE <<>>)
       \o (IF ~has(SpecialChars) THEN <<"Special char required">> ELSE <<>>)
       \o (IF \E c \in 1..Len(COMMON_PASSWORDS) :
                 includes(toLowerCase(s), COMMON_PASSWORDS[c])
           THEN <<"Too common">> ELSE <<>>)

\* The registration form as the visitor filled it in
MaxUsers == 4
RegisterForms ==
    LET form(email, username, password, confirmPassword) ==
            [email |-> email, username |-> username, password |-> password,
             confirmPassword |-> confirmPassword, name |-> "New User",
             \* no input of the form changes the role of its useState
             role |-> "student"]
    IN {form("a@b.c", "new_1", "StudentPass123!", "StudentPass123!"),
        form("d@e.f", "abc", "StudentPass123!StudentPass123!Student12a",
             "StudentPass123!StudentPass123!Student12a"),
        form("student@umgc.edu", "new_1", "StudentPass123!", "StudentPass123!"),
        form("d@e.f", "johndoe", "StudentPass123!", "StudentPass123!"),
        form("a@b", "new_1", "StudentPass123!", "StudentPass123!"),
        form("a@b.c", "ab", "StudentPass123!", "StudentPass123!"),
        form("a@b.c", "new_1", "weak", "weak"),
        form("a@b.c", "new_1", "Password1234!", "Password1234!"),
        form("a@b.c", "new_1", "StudentPass123!", "weak")}

\* A registration that does not look for the email or the username among the
\* users (mutation of the next)
RegisterOutcomeUnchecked(users, userData) ==
    IF ~EmailValid(userData.email) THEN "Invalid email"
    ELSE IF ~UsernameValid(userData.username) THEN "Invalid username"
    ELSE IF validatePassword(userData.password) # <<>>
    THEN validatePassword(userData.password)[1]
    ELSE IF userData.password # userData.confirmPassword THEN "Passwords mismatch"
    ELSE "Registration successful!"

\* The message handleRegister shows for userData, checked against users: the
\* first failed check's error, or 'Registration successful!' (it returns true
\* with this message and false with every other)
RegisterOutcome(users, userData) ==
    IF ~EmailValid(userData.email) THEN "Invalid email"
    ELSE IF ~UsernameValid(userData.username) THEN "Invalid username"
    ELSE IF \E i \in 1..Len(users) : users[i].email = userData.email
    THEN "Email exists"
    ELSE IF \E i \in 1..Len(users) : users[i].username = userData.username
    THEN "Username taken"
    ELSE IF validatePassword(userData.password) # <<>>
    THEN validatePassword(userData.password)[1]
    ELSE IF userData.password # userData.confirmPassword THEN "Passwords mismatch"
    ELSE "Registration successful!"

\* handleRegister reads the db of its closure and appends to the latest state
handleRegister(userData) ==
    /\ UNCHANGED <<dbVars, chatVars, call>>
    /\ view = "login"
    /\ LET outcome == RegisterOutcome(snapshot.users, userData)
       IN IF outcome # "Registration successful!"
          THEN /\ showNotification(outcome, "error")
               /\ UNCHANGED db
          ELSE /\ Len(db.users) < MaxUsers
               /\ db' = [db EXCEPT !.users =
                           Append(@, [id |-> Len(snapshot.users) + 1,
                                      username |-> userData.username,
                                      email |-> userData.email,
                                      password |-> hashPassword(userData.password),
                                      name |-> userData.name,
                                      role |-> IF userData.role = "" THEN "student"
                                               ELSE userData.role,
                                      major |-> IF userData.role = "student"
                                                THEN "Undeclared" ELSE "",
                                      completedCourses |-> {}])]
               /\ showNotification("Registration successful!", "success")
    /\ UNCHANGED <<snapshot, currentUser, view>>

\* The Register button of the registration form
onRegister(userData) ==
    /\ PageRendered
    /\ handleRegister(userData)

(***************************************************************************)
(* Specifications: Spec drives the database with any statements, SpecRace  *)
(* with one enrollment request per student, SpecApp drives the client.     *)
(***************************************************************************)
vars == <<dbVars, appVars, chatVars, call>>

Init == InitDb /\ InitApp /\ InitChat /\ call = [s \in Students |-> ReadyCall]
Next == NextDb
Spec == Init /\ [][Next]_vars

\* The client never talks to the database: SpecApp leaves it as seeded.
InitClient == Init /\ \A x \in Sections : section[x].status = "Scheduled"
SpecApp == InitClient /\ [][NextApp]_vars

SpecRace == Init /\ [][NextRace]_vars

\* Enrollment requests that may be repeated after they returned, and drops,
\* on Scheduled sections (no statement reads a section's status)
SpecRetry == InitClient /\ [][NextRetry]_vars

\* Enrollment statements whose audit write may fail
SpecFault == Init /\ [][NextFault]_vars

\* The statements on table enrollment alone (the waitlist statements neither
\* read nor write enrollment or audit_log)
NextEnrollment ==
    \/ \E s \in Students, x \in Sections : BeforeEnrollmentInsert(s, x)
    \/ \E s \in Students : EnrollmentInsert(s)
    \/ \E s \in Students : AfterEnrollmentInsert(s)
    \/ \E s \in Students : EnrollmentInsertCommit(s)
    \/ \E s \in Students, x \in Sections, st \in EnrollAndDropStatus :
          UpdateEnrollmentStatus(s, x, st)
    \/ \E s \in Students : EnrollmentUpdateCommit(s)
SpecEnrollment == Init /\ [][NextEnrollment]_vars

\* The login page and the administrator's panel
NextAdmin ==
    \/ \E u \in LoginNames, p \in LoginPasswords : onLogin(u, p)
    \/ onLogout
    \/ \E f \in CourseForms : AddCourseButton(f)
    \/ \E c \in CatalogIds : DeleteCourseButton(c)
    \/ Render
    \/ NotificationTimeout
SpecAdmin == InitClient /\ [][NextAdmin]_vars

\* Visitors register, the administrator edits the catalog and students
\* enroll in what it lists
CatalogNames == {"johndoe", "admin@umgc.edu", "new_1"}
CatalogForms == {userData \in RegisterForms :
                    userData.username = "new_1" /\ userData.email = "a@b.c"
                       /\ userData.confirmPassword = "StudentPass123!"}
NextCatalog ==
    \/ \E userData \in CatalogForms : onRegister(userData)
    \/ \E u \in CatalogNames, p \in LoginPasswords : onLogin(u, p)
    \/ onLogout
    \/ \E f \in CourseForms : AddCourseButton(f)
    \/ \E c \in CatalogIds : DeleteCourseButton(c)
    \/ \E c \in CatalogIds : onEnroll(c)
    \/ Render
    \/ NotificationTimeout
SpecCatalog == InitClient /\ [][NextCatalog]_vars

\* The login page: registrations, logins and logouts
AccountNames == {"johndoe", "abc", "nobody"}
AccountPasswords ==
    {"StudentPass123!", "StudentPass123!StudentPass123!Student12a",
     "StudentPass123!StudentPass123!Student12b"}
NextAccounts ==
    \/ \E userData \in RegisterForms : onRegister(userData)
    \/ \E u \in AccountNames, p \in AccountPasswords : onLogin(u, p)
    \/ onLogout
    \/ Render
    \/ NotificationTimeout
SpecAccounts == InitClient /\ [][NextAccounts]_vars

\* The AI Advisor widget alone
SpecChat == InitClient /\ [][NextChat]_vars

\* The widget with calls of handleSend made before the re-render
SpecChatCalls == InitClient /\ [][NextChatCalls]_vars

(***************************************************************************)
(*                               Claims                                    *)
(***************************************************************************)
WaitlistOf(x) == {w \in waitlist : w.section_id = x}
HasEnrolledRow(rows, s, x) ==
    \E e \in rows : e.student_id = s /\ e.section_id = x /\ e.enrollment_status = "Enrolled"
HasWaitlistRow(rows, s, x) ==
    \E w \in rows : w.student_id = s /\ w.section_id = x
\* the audit rows a step makes visible; a step adds one when it keeps every
\* row and the log has one row more
AuditRows(log) == {log[i] : i \in 1..Len(log)}
AuditAdded == AuditRows(audit_log') \ AuditRows(audit_log)
OneAuditAdded ==
    /\ AuditRows(audit_log) \subseteq AuditRows(audit_log')
    /\ Len(audit_log') = Len(audit_log) + 1
    /\ Cardinality(AuditAdded) = 1

\* C1: in every reachable state, the number of enrollment rows with status
\* Enrolled of a section is at most the section's capacity.
C1_CapacityNeverExceeded ==
    \A x \in Sections : CountEnrolled(enrollment, x) <= section[x].capacity

\* C2: when N students each send one enrollment request against a section of
\* capacity K < N that had no enrollments, then once all N requests have
\* returned exactly K ended Enrolled and the other N-K are waitlisted on
\* the positions 1..(N-K), whatever the interleaving.
CallsOn(x) == {s \in Students : call[s].pc # "ready" /\ call[s].section_id = x}
C2_ConcurrentRequestsOutcome ==
    \A x \in Sections :
        LET N == Cardinality(CallsOn(x))
            K == section[x].capacity
        IN (/\ \A s \in Students : call[s].pc # "running"
            /\ K < N)
           => /\ Cardinality({s \in CallsOn(x) : HasEnrolledRow(enrollment, s, x)}) = K
              /\ Cardinality({s \in CallsOn(x) : call[s].outcome = "ok"}) = K
              /\ {w.position : w \in WaitlistOf(x)} = 1..(N - K)
              /\ Cardinality(WaitlistOf(x)) = N - K
              /\ \A s \in CallsOn(x) :
                    HasEnrolledRow(enrollment, s, x) \/ HasWaitlistRow(waitlist, s, x)

\* C3: at most one enrollment record exists for a (student, offering) pair,
\* in the client's db as well, also after enroll, drop, enroll again.
C3_OneRecordPerPair ==
    /\ \A e1, e2 \in enrollment :
          (e1.student_id = e2.student_id /\ e1.section_id = e2.section_id) => e1 = e2
    /\ \A i, j \in 1..Len(db.enrollments) :
          (/\ db.enrollments[i].studentId = db.enrollments[j].studentId
           /\ db.enrollments[i].courseId = db.enrollments[j].courseId) => i = j

\* C4: no (student, offering) pair has an Enrolled enrollment row and a
\* waitlist row at the same time.
C4_NeverEnrolledAndWaitlisted ==
    \A s \in Students, x \in Sections :
        ~(HasEnrolledRow(enrollment, s, x) /\ HasWaitlistRow(waitlist, s, x))

\* C5: the positions of a section's waitlist rows are exactly 1..N, N the
\* number of rows, in the order the rows arrived, also after removals.
C5_WaitlistPositionsGapless ==
    \A x \in Sections :
        /\ {w.position : w \in WaitlistOf(x)} = 1..Cardinality(WaitlistOf(x))
        /\ \A w1, w2 \in WaitlistOf(x) :
              w1.waitlist_id < w2.waitlist_id => w1.position < w2.position

\* C6: an enrollment request for a section whose Enrolled count is at or above
\* capacity, by a student with no Enrolled row and no waitlist row there,
\* creates a waitlist row at position (largest position of the section, 0 if
\* none) + 1 and is a success, not an error.
C6_FullOfferingWaitlists ==
    [][\A s \in Students :
          LET x == session[s].section_id
          IN (/\ EnrollmentInsert(s)
              /\ session[s].current_enrollment >= section[x].capacity
              /\ CountEnrolled(enrollment, x) >= section[x].capacity
              /\ ~HasEnrolledRow(enrollment, s, x)
              /\ ~HasWaitlistRow(waitlist, s, x))
             => /\ EnrollmentInsertOutcome(s) = "ok"
                /\ \E w \in waitlist' \ waitlist :
                      /\ w.student_id = s /\ w.section_id = x
                      /\ w.position = SetMax({v.position : v \in WaitlistOf(x)}) + 1
       ]_vars

\* C7: an enrollment request for a Scheduled section whose Enrolled count is
\* below capacity, by a student with no Enrolled row and no waitlist row
\* there, is accepted, and when it commits there is an Enrolled row for the
\* pair and one more audit row, an ENROLLMENT_CREATE.
C7_FreeSeatEnrolls ==
    [][\A s \in Students :
          LET x == session[s].section_id
          IN /\ (/\ EnrollmentInsert(s)
                 /\ section[x].status = "Scheduled"
                 /\ session[s].current_enrollment < section[x].capacity
                 /\ CountEnrolled(enrollment, x) < section[x].capacity
                 /\ ~HasEnrolledRow(enrollment, s, x)
                 /\ ~HasWaitlistRow(waitlist, s, x))
                => /\ EnrollmentInsertOutcome(s) = "ok"
                   /\ session'[s].stmt = "after_enrollment_insert"
             /\ EnrollmentInsertCommit(s)
                => /\ HasEnrolledRow(enrollment', s, x)
                   /\ OneAuditAdded
                   /\ \A a \in AuditAdded :
                         /\ a.action_type = "ENROLLMENT_CREATE"
                         /\ a.object_id = session[s].enrollment_id
       ]_vars

\* C8: when an Enrolled student drops from a full section whose waitlist is
\* not empty, the waitlisted student with the lowest position is promoted:
\* that waitlist row is removed and that student has an Enrolled row.
LowestWaitlisted(x) ==
    CHOOSE w \in WaitlistOf(x) : \A v \in WaitlistOf(x) : w.position <= v.position
C8_DropPromotesLowest ==
    [][\A s \in Students :
          LET x == session[s].section_id
          IN (/\ EnrollmentUpdateCommit(s)
              /\ session[s].new_status = "Dropped"
              /\ HasEnrolledRow(enrollment, s, x)
              /\ CountEnrolled(enrollment, x) >= section[x].capacity
              /\ WaitlistOf(x) # {})
             => /\ LowestWaitlisted(x) \notin waitlist'
                /\ HasEnrolledRow(enrollment', LowestWaitlisted(x).student_id, x)
       ]_vars

\* C9: a drop of a pair that has an Enrolled record changes the record's
\* status to Dropped and adds one ENROLLMENT_UPDATE audit event for that
\* record whose details are old_status = Enrolled, new_status = Dropped: in
\* the database when the UPDATE commits, in the client when handleDrop runs
\* (the only log the client's db keeps is failedLogins, which the
\* administrator's panel shows as the "Security Audit Log").
C9_DropUpdatesAndAudits ==
    [][/\ \A s \in Students :
             LET x == session[s].section_id
             IN (/\ EnrollmentUpdateCommit(s)
                 /\ session[s].new_status = "Dropped"
                 /\ HasEnrolledRow(enrollment, s, x))
                => /\ \A e \in enrollment' :
                         (e.student_id = s /\ e.section_id = x)
                            => e.enrollment_status = "Dropped"
                   /\ \E e \in enrollment' : e.student_id = s /\ e.section_id = x
                   /\ OneAuditAdded
                   /\ \A a \in AuditAdded :
                         /\ a.action_type = "ENROLLMENT_UPDATE"
                         /\ a.details = [old_status |-> "Enrolled",
                                         new_status |-> "Dropped"]
                         /\ a.user_id = UserIdOf(s)
                         /\ \E e \in enrollment' :
                               /\ e.enrollment_id = a.object_id
                               /\ e.student_id = s /\ e.section_id = x
       /\ \A c \in CourseIds :
             (/\ handleDrop(c)
              /\ isEnrolled(db.enrollments, currentUser.id, c))
             => /\ ~isEnrolled(db'.enrollments, currentUser.id, c)
                /\ \E i \in 1..Len(db'.enrollments) :
                      /\ db'.enrollments[i].studentId = currentUser.id
                      /\ db'.enrollments[i].courseId = c
                      /\ db'.enrollments[i].status = "dropped"
                /\ Len(db'.failedLogins) = Len(db.failedLogins) + 1
      ]_vars

\* C10: a drop on a pair with no Enrolled record (such as the second of two
\* drops in a row) fails and changes no record, no seat count and no
\* waitlist entry: in the database the UPDATE to Dropped is rejected,
\* writes nothing and never commits, in the client handleDrop shows an error
\* and leaves db.
C10_SecondDropChangesNothing ==
    [][/\ \A s \in Students, x \in Sections :
             (/\ ~HasEnrolledRow(enrollment, s, x)
              /\ UpdateEnrollmentStatus(s, x, "Dropped"))
             => /\ UpdateEnrollmentOutcome(s, x) # "ok"
                /\ enrollment' = enrollment
                /\ waitlist' = waitlist
                /\ audit_log' = audit_log
                /\ session'[s].stmt = "none"
       /\ \A s \in Students :
             (EnrollmentUpdateCommit(s) /\ session[s].new_status = "Dropped")
                => HasEnrolledRow(enrollment, s, session[s].section_id)
       /\ \A c \in CourseIds :
             (/\ handleDrop(c)
              /\ ~isEnrolled(db.enrollments, currentUser.id, c))
             => /\ db' = db
                /\ notification'.type = "error"
      ]_vars

\* C11: an enrollment request by a student who already has an Enrolled row or
\* a waitlist row for the section fails, and creates no enrollment row and
\* no waitlist row.
C11_AlreadyActiveRejected ==
    [][\A s \in Students :
          LET x == session[s].section_id
          IN /\ (/\ session[s].stmt = "insert_enrollment"
                 /\ HasEnrolledRow(enrollment, s, x) \/ HasWaitlistRow(waitlist, s, x)
                 /\ EnrollmentInsert(s))
                => /\ EnrollmentInsertOutcome(s) # "ok"
                   /\ session'[s].stmt = "none"
                   /\ enrollment' = enrollment
                   /\ waitlist' = waitlist
             \* and no statement of such a student gets as far as storing a row
             /\ EnrollmentInsertCommit(s)
                => ~(HasEnrolledRow(enrollment, s, x) \/ HasWaitlistRow(waitlist, s, x))
       ]_vars

\* C12: an enrollment request for a course one of whose prerequisites is not
\* among the student's completed courses fails and creates no enrollment
\* record.
C12_PrerequisiteNotMetRejected ==
    [][\A c \in CourseIds :
          (/\ view = "dashboard"
           /\ ~PrerequisitesMet(FindCourse(db.courses, c), currentUser)
           /\ handleEnroll(c))
          => /\ db'.enrollments = db.enrollments
             /\ notification'.type = "error"
       ]_vars

\* C13: an enrollment request against a section whose status is Cancelled or
\* Completed fails and creates no enrollment row and no waitlist row.
C13_UnschedulableOfferingRejected ==
    [][\A s \in Students :
          LET x == session[s].section_id
          IN /\ (/\ session[s].stmt = "insert_enrollment"
                 /\ section[x].status \in {"Cancelled", "Completed"}
                 /\ EnrollmentInsert(s))
                => /\ EnrollmentInsertOutcome(s) # "ok"
                   /\ session'[s].stmt = "none"
                   /\ enrollment' = enrollment
                   /\ waitlist' = waitlist
             \* and no statement on such a section gets as far as storing a row
             /\ EnrollmentInsertCommit(s)
                => section[x].status \notin {"Cancelled", "Completed"}
       ]_vars

\* C14: withdrawing from a waitlist removes the student's row and lowers by
\* one the position of every row of that section that was behind it; the
\* rows in front keep their position.
C14_WithdrawRenumbers ==
    [][\A s \in Students, x \in Sections :
          (/\ HasWaitlistRow(waitlist, s, x)
           /\ WaitlistDelete(s, x))
          => LET w == CHOOSE r \in WaitlistRowsOf(s, x) : TRUE
             IN /\ ~HasWaitlistRow(waitlist', s, x)
                /\ \A v \in WaitlistOf(x) \ {w} :
                      \E v2 \in waitlist' :
                         /\ v2.waitlist_id = v.waitlist_id
                         /\ v2.position = IF v.position > w.position
                                           THEN v.position - 1
                                           ELSE v.position
       ]_vars

\* C15: a step that changes an enrollment row's status, or creates an
\* enrollment row, or creates or removes a waitlist row, adds exactly one
\* audit row and keeps the others; a step that does none of these leaves the
\* audit log as it was.
C15_ExactlyOneAuditPerChange ==
    [][IF enrollment' # enrollment \/ waitlist' # waitlist
       THEN OneAuditAdded
       ELSE audit_log' = audit_log
      ]_vars

\* C16: when the audit write of an enrollment insert or of a status update
\* fails, the enrollment change still takes effect: the inserted row exists
\* as Enrolled, the updated row carries the new status.
C16_AuditFailureNotFatal ==
    [][/\ \A s \in Students :
             (call[s].pc = "running" /\ RequestFailsOnAudit(s))
                => HasEnrolledRow(enrollment', s, call[s].section_id)
       /\ \A s \in Students, x \in Sections, st \in EnrollmentStatus :
             (call[s].outcome = "ok" /\ UpdateFailsOnAudit(s, x, st))
                => \E e \in enrollment' : /\ e.student_id = s /\ e.section_id = x
                                          /\ e.enrollment_status = st
      ]_vars

\* C17: an enrollment request that fails (section full, or the pair already
\* has a row) leaves the enrollment rows, the waitlist rows, every section's
\* Enrolled count and the audit log exactly as they were.
C17_FailedRequestChangesNothing ==
    [][\A s \in Students :
          (/\ call[s].pc = "running"
           /\ session[s].stmt = "insert_enrollment"
           /\ EnrollmentInsertOutcome(s) # "ok"
           /\ RequestReturns(s))
          => /\ enrollment' = enrollment
             /\ waitlist' = waitlist
             /\ audit_log' = audit_log
             /\ section' = section
             /\ \A x \in Sections :
                   CountEnrolled(enrollment', x) = CountEnrolled(enrollment, x)
       ]_vars

\* C17 witness: requests have returned with each kind of failure.
C17_Witness ==
    /\ \E s \in Students : call[s].pc = "done" /\ call[s].outcome = "section_full"
    /\ \E s \in Students : call[s].pc = "done" /\ call[s].outcome = "duplicate_entry"

\* C18: no two waitlist rows of one section have the same position, and a
\* row created earlier never has a larger position than one created later,
\* also when the inserts ran concurrently.
C18_ConcurrentWaitlistPositions ==
    \A x \in Sections :
        \A w1, w2 \in WaitlistOf(x) :
            w1.waitlist_id < w2.waitlist_id => w1.position < w2.position

\* C19: no enroll and no drop removes an enrollment record: every record of
\* db.enrollments that exists before a step exists after it, at its place
\* and for the same (student, offering) pair, and the number of records
\* never shrinks.
C19_RecordsNeverRemoved ==
    [][/\ Len(db'.enrollments) >= Len(db.enrollments)
       /\ \A i \in 1..Len(db.enrollments) :
             /\ db'.enrollments[i].id = db.enrollments[i].id
             /\ db'.enrollments[i].studentId = db.enrollments[i].studentId
             /\ db'.enrollments[i].courseId = db.enrollments[i].courseId
      ]_vars

\* C19 witness: a record has been dropped and a record has been appended
\* behind it since the seed: the dropped record is still there.
C19_Witness ==
    \E i, j \in 1..Len(db.enrollments) :
        /\ i < j
        /\ j > Len(initializeDatabase.enrollments)
        /\ db.enrollments[i].status = "dropped"

\* C20: an enroll or a drop on offering X leaves the enrollment records, the
\* seat count and the waitlist entries of every other offering unchanged: in
\* the database the commit of an INSERT or of an UPDATE on section X changes
\* no row and no count of another section, in the client a handleEnroll or a
\* handleDrop changes the records of the one course only and the counter of
\* no more than one entry of db.courses.
RowsOfSection(rows, y) == {e \in rows : e.section_id = y}
OtherSectionsUnchanged(x) ==
    \A y \in Sections \ {x} :
        /\ RowsOfSection(enrollment', y) = RowsOfSection(enrollment, y)
        /\ CountEnrolled(enrollment', y) = CountEnrolled(enrollment, y)
        /\ RowsOfSection(waitlist', y) = RowsOfSection(waitlist, y)
        /\ section'[y] = section[y]
OtherCoursesUnchanged(c) ==
    /\ Len(db'.courses) = Len(db.courses)
    /\ Cardinality({i \in 1..Len(db.courses) : db'.courses[i] # db.courses[i]}) <= 1
    /\ \A i \in 1..Len(db.enrollments) :
          db.enrollments[i].courseId # c => db'.enrollments[i] = db.enrollments[i]
    /\ \A i \in 1..Len(db'.enrollments) :
          i > Len(db.enrollments) => db'.enrollments[i].courseId = c
C20_OfferingsIndependent ==
    [][/\ \A s \in Students :
             EnrollmentInsertCommit(s)
                => /\ OtherSectionsUnchanged(session[s].section_id)
                   /\ \E e \in enrollment' \ enrollment :
                         e.section_id = session[s].section_id
       /\ \A s \in Students :
             EnrollmentUpdateCommit(s)
                => OtherSectionsUnchanged(session[s].section_id)
       /\ \A c \in CatalogIds :
             (view = "dashboard" /\ c \in RenderedCourseIds /\ handleEnroll(c))
                => OtherCoursesUnchanged(c)
       /\ \A c \in CourseIds :
             (/\ view = "dashboard"
              /\ \E i \in 1..Len(db.courses) : db.courses[i].id = c
              /\ handleDrop(c))
                => OtherCoursesUnchanged(c)
      ]_vars

\* C21: an enrollment request by a student whose row for the section is
\* Dropped, while a seat of the section is free, is not rejected: it ends with
\* an Enrolled row for the pair, still one row for the pair, and the section's
\* Enrolled count within its capacity.
C21_ReenrollAfterDrop ==
    [][\A s \in Students :
          LET x == session[s].section_id
          IN /\ (/\ session[s].stmt = "insert_enrollment"
                 /\ EnrollmentInsert(s)
                 /\ \E e \in EnrollmentRowsOf(s, x) : e.enrollment_status = "Dropped"
                 /\ session[s].current_enrollment < section[x].capacity
                 /\ CountEnrolled(enrollment, x) < section[x].capacity
                 /\ ~HasWaitlistRow(waitlist, s, x))
                => /\ EnrollmentInsertOutcome(s) = "ok"
                   /\ session'[s].stmt = "after_enrollment_insert"
             /\ (/\ EnrollmentInsertCommit(s)
                 /\ \E e \in EnrollmentRowsOf(s, x) : e.enrollment_status = "Dropped")
                => /\ HasEnrolledRow(enrollment', s, x)
                   /\ Cardinality({e \in enrollment' :
                          e.student_id = s /\ e.section_id = x}) = 1
                   /\ CountEnrolled(enrollment', x) <= section[x].capacity
       ]_vars

\* C22: a handleLogin whose name matches no user, or whose password is not
\* the one the matched user registered with (for a seeded user, the one the
\* seed hashes), appends exactly one entry to failedLogins and leaves
\* currentUser and view as they were; a handleLogin with a user's name (or
\* email) and that user's password appends nothing and sets currentUser to
\* that user.
PasswordOf(user) ==
    IF user.username = "johndoe" THEN "StudentPass123!"
    ELSE IF user.username = "drsmith" THEN "AdminPass123!"
    ELSE (CHOOSE userData \in RegisterForms :
             /\ userData.username = user.username
             /\ RegisterOutcome(initializeDatabase.users, userData)
                   = "Registration successful!").password
CredentialsOf(users, username, password) ==
    {i \in 1..Len(users) :
        /\ users[i].username = username \/ users[i].email = username
        /\ PasswordOf(users[i]) = password}
C22_LoginOutcome ==
    [][\A u \in AccountNames, p \in AccountPasswords :
          (view = "login" /\ handleLogin(u, p))
             => IF CredentialsOf(db.users, u, p) = {}
                THEN /\ Len(db'.failedLogins) = Len(db.failedLogins) + 1
                     /\ SubSeq(db'.failedLogins, 1, Len(db.failedLogins))
                           = db.failedLogins
                     /\ db'.failedLogins[Len(db'.failedLogins)].username = u
                     /\ currentUser' = currentUser
                     /\ view' = view
                ELSE /\ db'.failedLogins = db.failedLogins
                     /\ \E i \in CredentialsOf(db.users, u, p) :
                           currentUser' = db.users[i]
       ]_vars

\* C23: the notification on display is cleared by the timer its own
\* showNotification set and by no earlier one: a timer that fires while a
\* later showNotification's timer is still pending leaves the notification
\* on display, and the last pending timer clears it.  (All timers run 4000 ms,
\* so they fire in the order they were set.)
C23_NotificationOwnTimer ==
    [][(timers > 0 /\ NotificationTimeout)
          => IF timers > 1
             THEN notification' = notification
             ELSE notification' = NoNotification
      ]_vars

\* C24: for every course, the cached enrolled counter minus the number of the
\* course's records with status 'enrolled' is what it was initially, and the
\* counter is never below 0.
EnrolledRecords(d, courseId) ==
    Cardinality({i \in 1..Len(d.enrollments) :
                    /\ d.enrollments[i].courseId = courseId
                    /\ d.enrollments[i].status = "enrolled"})
C24_CounterTracksRecords ==
    \A i \in 1..Len(db.courses) :
        LET c == db.courses[i].id
        IN /\ db.courses[i].enrolled - EnrolledRecords(db, c)
                 = FindCourse(initializeDatabase.courses, c).enrolled
                      - EnrolledRecords(initializeDatabase, c)
           /\ db.courses[i].enrolled >= 0

\* C24 witness: the student has dropped a course and enrolled in it again,
\* and has enrolled in another course.
C24_Witness ==
    /\ \E i, j, k \in 1..Len(db.enrollments) :
          /\ i < j
          /\ db.enrollments[i].courseId = db.enrollments[j].courseId
          /\ db.enrollments[i].status = "dropped"
          /\ db.enrollments[j].status = "enrolled"
          /\ db.enrollments[k].courseId # db.enrollments[i].courseId
          /\ db.enrollments[k].status = "enrolled"

\* C25: no course's enrolled counter is above the course's capacity, also
\* after several handleEnroll calls for the course made from one rendered
\* snapshot.
C25_CounterWithinCapacity ==
    \A i \in 1..Len(db.courses) : db.courses[i].enrolled <= db.courses[i].capacity

\* C26: at most one backend request of the AI Advisor widget is in flight, and
\* a handleSend invoked while an earlier send has not finished, also one
\* invoked before the widget has re-rendered, sends nothing and appends no
\* message: while a request is in flight no step adds a request or a user
\* message.
UserMessages(m) == Cardinality({i \in 1..Len(m) : m[i].sender = "user"})
C26_OneRequestInFlight ==
    [][/\ Len(requests) <= 1
       /\ Len(requests') <= 1
       /\ requests # <<>>
             => /\ Len(requests') <= Len(requests)
                /\ UserMessages(messages') = UserMessages(messages)
      ]_vars

\* C27: every accepted handleSend appends the user's trimmed message and
\* later exactly one bot message, the reply or, when the fetch failed, the
\* response was not OK or its body could not be parsed, the fallback;
\* isSending is false once the send has finished, and the message list
\* only grows.
SentBy(sender) == Cardinality({i \in 1..Len(messages) : messages[i].sender = sender})
OneBotMessage(text) ==
    /\ messages' = Append(messages, [sender |-> "bot", text |-> text])
    /\ ~isSending'
    /\ Len(requests') = Len(requests) - 1
C27_EverySendAnswered ==
    [][/\ Len(messages') >= Len(messages)
       /\ SubSeq(messages', 1, Len(messages)) = messages
       /\ (handleKeyDown \/ SendButton)
             => /\ Trim(input) # <<>>
                /\ messages' = Append(messages, [sender |-> "user",
                                                 text |-> Trim(input)])
                /\ Len(requests') = Len(requests) + 1
       /\ \A i \in 1..Len(requests), r \in ChatResponses :
             /\ handleSendResumes(i, r)
                   => IF r.rejects \/ ~r.ok
                      THEN OneBotMessage(FallbackText)
                      ELSE /\ messages' = messages
                           /\ isSending'
                           /\ Len(requests') = Len(requests)
             /\ handleSendFinishes(i, r)
                   => OneBotMessage(IF r.parsable THEN botText(r.body)
                                                  ELSE FallbackText)
       /\ SentBy("user") = (SentBy("bot") - 1) + Len(requests)
       /\ isSending <=> requests # <<>>
      ]_vars

\* C27 witness: two sends have finished, one answered with the fallback and
\* one with the backend's reply.
C27_Witness ==
    /\ requests = <<>>
    /\ ~isSending
    /\ Len(messages) = 5
    /\ messages[2].sender = "user" /\ messages[3].text = FallbackText
    /\ messages[4].sender = "user" /\ messages[5].text = <<"A">>

\* C28: view is 'login' exactly when currentUser is null, 'admin' only when
\* currentUser's role is 'admin', and 'dashboard' only when currentUser is a
\* user who is not an admin; a logout leaves view 'login' and currentUser null.
ViewMatchesUser(v, u) ==
    /\ v \in {"login", "dashboard", "admin"}
    /\ (v = "login") <=> (u = NoUser)
    /\ (v = "admin") => (u.role = "admin")
    /\ (v = "dashboard") => (u # NoUser /\ u.role # "admin")
C28_ViewMatchesUser ==
    [][/\ ViewMatchesUser(view, currentUser)
       /\ ViewMatchesUser(view', currentUser')
       /\ (view # "login" /\ onLogout)
             => (view' = "login" /\ currentUser' = NoUser)
      ]_vars

\* C28 witness: the administrator has logged in, has logged out, and a
\* student is now on the dashboard.
C28_Witness ==
    /\ view = "dashboard"
    /\ currentUser.role = "student"
    /\ Len(db.courses) < Len(initializeDatabase.courses)

\* C29: no two courses of db.courses have the same id.
C29_CourseIdsUnique ==
    \A i, j \in 1..Len(db.courses) :
        db.courses[i].id = db.courses[j].id => i = j

\* C30: no two users of db.users share an email, a username or an id; a
\* handleRegister that returns false leaves db.users as it was, and one that
\* returns true adds exactly one user.
UsersDistinct(users) ==
    \A i, j \in 1..Len(users) :
        (\/ users[i].email = users[j].email
         \/ users[i].username = users[j].username
         \/ users[i].id = users[j].id) => i = j
C30_RegisteredUsersDistinct ==
    [][/\ UsersDistinct(db.users)
       /\ UsersDistinct(db'.users)
       /\ \A userData \in RegisterForms :
             (view = "login" /\ handleRegister(userData))
                => IF notification'.message = "Registration successful!"
                   THEN /\ Len(db'.users) = Len(db.users) + 1
                        /\ SubSeq(db'.users, 1, Len(db.users)) = db.users
                        /\ db'.users[Len(db'.users)].email = userData.email
                        /\ db'.users[Len(db'.users)].username = userData.username
                   ELSE db'.users = db.users
      ]_vars

\* C30 witness: two visitors have registered, and a registration with an
\* email in use has been turned down.
C30_Witness ==
    /\ Len(db.users) = Len(initializeDatabase.users) + 2
    /\ notification.message = "Email exists"

====
